---- MODULE Spec2Model ----
(***************************************************************************)
(* Model of the subcommand dispatcher of package cli (src/cli.go): the     *)
(* CLI struct, its one-time initializer (registry build and parent         *)
(* synthesis), the argument scan of processArgs and the dispatch of Run.   *)
(*                                                                         *)
(* A Go string is a sequence of one-character strings, so that prefixes,   *)
(* joins, spaces and leading dashes are computed as the code computes      *)
(* them: "foo bar" is <<"f","o","o"," ","b","a","r">>.  Go slices are      *)
(* 0-based, sequences here are 1-based: Go Args[i] is Args[i+1].           *)
(***************************************************************************)
EXTENDS Integers, Sequences, FiniteSets, TLC

\* ------------------------------------------------------------------ bounds

\* Longest argument vector explored.
MaxArgs == 3

\* ------------------------------------------------------------- the strings

Empty == <<>>
sDashDash == <<"-", "-">>
sH == <<"-", "h">>
sHelp == <<"-", "h", "e", "l", "p">>
sHHelp == <<"-", "-", "h", "e", "l", "p">>
sV == <<"-", "v">>
sVersion == <<"-", "v", "e", "r", "s", "i", "o", "n">>
sVVersion == <<"-", "-", "v", "e", "r", "s", "i", "o", "n">>
sX == <<"-", "x">>
sA == <<"a">>
sB == <<"b">>
sAB == <<"a", "b">>
sA_B == <<"a", " ", "b">>
sA_B_A == <<"a", " ", "b", " ", "a">>

\* The tokens an argument vector is drawn from: blank, the end-of-flags
\* marker, two spellings of the help flag, a version flag, another flag, two
\* plain words, a word that has the key "a" as a proper character prefix,
\* and a quoted token that contains a space.
ArgTokens == {Empty, sDashDash, sH, sHHelp, sV, sX, sA, sB, sAB, sA_B}

\* The keys a Commands map is drawn from: the default command, a top-level
\* command and nested commands of depth two and three.
CommandKeys == {Empty, sA, sA_B, sA_B_A}

\* The HiddenCommands lists explored.
HiddenChoices == {{}}

\* The Version strings explored: unset and set.
Versions == {"", "1.0.0"}

\* Byte values of the characters used, for sort.Strings.
CharCode == [c \in {" ", "-", "a", "b", "e", "h", "i", "l", "n", "o", "p", "r", "s", "v", "x"} |->
               CASE c = " " -> 32 [] c = "-" -> 45 [] c = "a" -> 97 [] c = "b" -> 98
                 [] c = "e" -> 101 [] c = "h" -> 104 [] c = "i" -> 105 [] c = "l" -> 108
                 [] c = "n" -> 110 [] c = "o" -> 111 [] c = "p" -> 112 [] c = "r" -> 114
                 [] c = "s" -> 115 [] c = "v" -> 118 [] c = "x" -> 120]

\* strings.HasPrefix(s, p)
HasPrefix(s, p) == Len(p) <= Len(s) /\ SubSeq(s, 1, Len(p)) = p

\* strings.ContainsRune(s, r)
ContainsRune(s, r) == \E n \in 1..Len(s) : s[n] = r

\* strings.Count(s, r) for a one-character r
RECURSIVE Count(_, _)
Count(s, r) == IF s = <<>> THEN 0
               ELSE (IF Head(s) = r THEN 1 ELSE 0) + Count(Tail(s), r)

\* strings.LastIndex(s, r), 1-based; 0 stands for Go's -1
LastIndex(s, r) == IF ContainsRune(s, r)
                   THEN CHOOSE n \in 1..Len(s) : s[n] = r /\ \A m \in (n+1)..Len(s) : s[m] # r
                   ELSE 0

\* strings.TrimRight(s, " ")
RECURSIVE TrimRight(_)
TrimRight(s) == IF s # <<>> /\ s[Len(s)] = " " THEN TrimRight(SubSeq(s, 1, Len(s) - 1)) ELSE s

\* strings.TrimLeft(s, " ")
RECURSIVE TrimLeft(_)
TrimLeft(s) == IF s # <<>> /\ Head(s) = " " THEN TrimLeft(Tail(s)) ELSE s

\* strings.TrimSpace(s)
TrimSpace(s) == TrimRight(TrimLeft(s))

\* strings.Join(a, " ")
RECURSIVE Join(_)
Join(a) == IF a = <<>> THEN <<>>
           ELSE IF Len(a) = 1 THEN a[1]
           ELSE a[1] \o <<" ">> \o Join(Tail(a))

\* strings.Repeat(" ", n)
Repeat(n) == [m \in 1..n |-> " "]

\* s < t in the byte order sort.Strings uses
RECURSIVE StrLess(_, _)
StrLess(s, t) == IF t = <<>> THEN FALSE
                 ELSE IF s = <<>> THEN TRUE
                 ELSE IF Head(s) # Head(t) THEN CharCode[Head(s)] < CharCode[Head(t)]
                 ELSE StrLess(Tail(s), Tail(t))

\* sort.Strings(keys) of a set of distinct keys
RECURSIVE SortStrings(_)
SortStrings(S) == IF S = {} THEN <<>>
                  ELSE LET least == CHOOSE k \in S : \A o \in S \ {k} : StrLess(k, o)
                       IN <<least>> \o SortStrings(S \ {least})

\* All sequences over T of length at most n
SeqsUpTo(T, n) == UNION {[1..m -> T] : m \in 0..n}

\* ------------------------------------------------------------------- state

\* The value a command's Run returns to ask for its own help (command.go).
RunResultHelp == -18511

\* The result codes a registered command's Run may return.
RunResults == {0, 42, RunResultHelp}

VARIABLES
  Args,            \* CLI.Args
  Commands,        \* the keys of CLI.Commands
  HiddenCommands,  \* CLI.HiddenCommands
  Version,         \* CLI.Version
  helpTemplate,    \* what the registered commands give as their help template:
                   \* "default" (none of their own), "unparsable", or one whose
                   \* execution fails, "failsAtStart" or "failsMidway"
  pc,              \* "new": once not yet run; "loop", "post": inside init's
                   \* processArgs; "done": once has completed
  idx,             \* loop variable i of processArgs, 1-based
  commandTree,     \* key -> "user" | "placeholder": the factories by key
  commandNested,
  commandHidden,
  subcommand,
  subcommandArgs,
  topFlags,
  isHelp,
  isVersion,
  returned,        \* Run has returned
  exitCode,        \* the int Run returned
  runErr,          \* Run returned a non-nil error
  panicked,        \* Run ended in a nil dereference instead of returning
  helpOut,         \* what was written to HelpWriter, in order
  errOut,          \* what was written to ErrorWriter, in order
  factoryCalls,    \* the factories invoked, in order: [key, ok]
  runCalls,        \* the Command.Run calls, in order: [key, args, result]
  tstate,          \* per calling goroutine: "idle", "init" (runs c.init inside
                   \* once.Do), "blocked" (waits inside once.Do), "ready"
                   \* (once.Do has returned)
  top,             \* per calling goroutine: the public method it is in
  ncalls,          \* the number of calls made so far
  owner,           \* the goroutine that runs c.init for c.once, 0 for none
  wasBlocked,      \* the goroutines that have waited inside once.Do
  seen,            \* per accessor: the set of the values it has returned
  NoColor,         \* the package variable NoColor
  colors,          \* per Color value: its fields params and noColor (a *bool:
                   \* <<>> for nil, <<b>> for a pointer to b)
  sinks,           \* what was written to the writer w and to ColorOutput, in order
  equalsCalls      \* the calls of Color.Equals made: [c, c2, result]

vars == <<Args, Commands, HiddenCommands, Version, helpTemplate, pc, idx, commandTree,
          commandNested, commandHidden, subcommand, subcommandArgs, topFlags,
          isHelp, isVersion, returned, exitCode, runErr, panicked, helpOut, errOut,
          factoryCalls, runCalls, tstate, top, ncalls, owner, wasBlocked, seen,
          NoColor, colors, sinks, equalsCalls>>

\* The goroutines that call the public methods of the one CLI value.
Threads == {1, 2}
callers == <<tstate, top, ncalls, owner, wasBlocked, seen>>

\* No goroutine has called anything yet.
callersInit ==
  /\ tstate = [t \in Threads |-> "idle"]
  /\ top = [t \in Threads |-> "none"]
  /\ ncalls = 0
  /\ owner = 0
  /\ wasBlocked = {}
  /\ seen = [IsHelp |-> {}, IsVersion |-> {}, Subcommand |-> {}, SubcommandArgs |-> {}]

\* The Color values of the program, and the state of the colour package.
ColorIds == {1, 2}
colour == <<NoColor, colors, sinks, equalsCalls>>

\* No colour was made to act: colours without parameters, nothing written.
colourInit ==
  /\ NoColor = FALSE
  /\ colors = [c \in ColorIds |-> [params |-> <<>>, noColor |-> <<>>]]
  /\ sinks = [w |-> <<>>, ColorOutput |-> <<>>]
  /\ equalsCalls = {}

config == <<Args, Commands, HiddenCommands, Version, helpTemplate>>
derived == <<commandTree, commandNested, commandHidden, subcommand,
             subcommandArgs, topFlags, isHelp, isVersion>>
observed == <<returned, exitCode, runErr, panicked, helpOut, errOut, factoryCalls, runCalls>>

\* A CLI value as constructed by the caller: the public fields set, the
\* internal fields at their zero values.
Init ==
  /\ Args \in SeqsUpTo(ArgTokens, MaxArgs)
  /\ Commands \in SUBSET CommandKeys
  /\ HiddenCommands \in HiddenChoices
  /\ Version \in Versions
  /\ helpTemplate = "default"
  /\ pc = "new"
  /\ idx = 0
  /\ commandTree = <<>>
  /\ commandNested = FALSE
  /\ commandHidden = {}
  /\ subcommand = <<>>
  /\ subcommandArgs = <<>>
  /\ topFlags = <<>>
  /\ isHelp = FALSE
  /\ isVersion = FALSE
  /\ returned = FALSE
  /\ exitCode = 0
  /\ runErr = FALSE
  /\ panicked = FALSE
  /\ helpOut = <<>>
  /\ errOut = <<>>
  /\ factoryCalls = <<>>
  /\ runCalls = <<>>
  /\ callersInit
  /\ colourInit

\* --------------------------------------------------------- the initializer

\* walkFn without its recursive call: only the immediate parent of key k is
\* looked at.
walkFn_oneLevel(keys, k) ==
  LET n == LastIndex(k, " ") IN
  IF n = 0 \/ SubSeq(k, 1, n - 1) \in keys THEN {} ELSE {SubSeq(k, 1, n - 1)}

\* walkFn of init: the ancestors of key k that the tree is missing,
\* found by trimming at the last space until a registered parent or a
\* top-level key is met.
RECURSIVE walkFn(_, _)
walkFn(keys, k) ==
  LET n == LastIndex(k, " ") IN
  IF n = 0 THEN {}
  ELSE LET parent == SubSeq(k, 1, n - 1) IN
       IF parent \in keys THEN {} ELSE {parent} \cup walkFn(keys, parent)

\* The keys init inserts for the missing parents: one walk over the tree.
toInsert(keys) == UNION {walkFn(keys, k) : k \in keys}

\* The keys of Commands as inserted in the tree.
trimmedKeys(commands) == {TrimSpace(k) : k \in commands}

\* c.once.Do(c.init) up to the call of processArgs: the hidden set, the
\* command tree, the nested flag and the placeholder parents.
init ==
  /\ pc = "new"
  /\ commandHidden' = HiddenCommands
  /\ LET keys == trimmedKeys(Commands)
         nested == \E k \in keys : ContainsRune(k, " ")
         added == IF nested THEN toInsert(keys) ELSE {}
     IN /\ commandNested' = nested
        /\ commandTree' = [k \in keys \cup added |->
                             IF k \in keys THEN "user" ELSE "placeholder"]
  /\ pc' = "loop"
  /\ idx' = 1
  /\ UNCHANGED <<colour, config, callers, subcommand, subcommandArgs, topFlags, isHelp, isVersion, observed>>

\* ------------------------------------------------------------ processArgs

\* arg == "-h" || arg == "-help" || arg == "--help"
isHelpArg_noLong(arg) == arg = sH \/ arg = sHelp
isHelpArg(arg) == arg = sH \/ arg = sHelp \/ arg = sHHelp

\* arg == "-v" || arg == "-version" || arg == "--version"
isVersionArg(arg) == arg = sV \/ arg = sVersion \/ arg = sVVersion

\* arg != "" && arg[0] == '-'
isFlagArg(arg) == arg # <<>> /\ arg[1] = "-"

\* The test without arg[0] != '-': a flag may begin the path.
isCommandArg_anyNonEmpty(arg) == arg # <<>>

\* arg != "" && arg[0] != '-'
isCommandArg(arg) == arg # <<>> /\ arg[1] # "-"

\* The test that ends the run of subcommand tokens.
endsSubcommand(v) == ContainsRune(v, " ") \/ v = <<>> \/ v[1] = "-"

\* The loop that finds j: Go's exclusive end of the subcommand tokens, which
\* is the 1-based index of the last of them.  n is the token looked at.
RECURSIVE findEnd(_, _, _)
findEnd(args, n, j) ==
  IF n > Len(args) \/ endsSubcommand(args[n]) THEN j
  ELSE findEnd(args, n + 1, n)

\* radix.Tree.LongestPrefix: the longest key that is a character prefix of s.
LongestPrefix(tree, s) ==
  LET found == {k \in DOMAIN tree : HasPrefix(s, k)} IN
  IF found = {} THEN [k |-> <<>>, ok |-> FALSE]
  ELSE [k |-> CHOOSE k \in found : \A o \in found : Len(o) <= Len(k), ok |-> TRUE]

\* regexp.MustCompile(regexp.QuoteMeta(k) + `( |$)`).MatchString(searchKey):
\* k occurs in searchKey, at any offset, followed by a space or by the end.
reVerify(k, searchKey) ==
  \E off \in 0..(Len(searchKey) - Len(k)) :
    /\ SubSeq(searchKey, off + 1, off + Len(k)) = k
    /\ \/ off + Len(k) = Len(searchKey)
       \/ searchKey[off + Len(k) + 1] = " "

\* c.Args[i+1:], with i the 1-based index of the token
argsAfter_inclusive(args, i) == SubSeq(args, i, Len(args))
argsAfter(args, i) == SubSeq(args, i + 1, Len(args))

\* The nested branch of the subcommand search, for the token at index i
\* that begins the path: the subcommand and its arguments.
nestedSubcommand(tree, args, i) ==
  LET j == findEnd(args, i, 0)
      searchKey == Join(SubSeq(args, i, j))
      lp == LongestPrefix(tree, searchKey)
  IN IF lp.ok /\ reVerify(lp.k, searchKey)
     THEN [subcommand |-> lp.k, args |-> argsAfter(args, i + Count(lp.k, " "))]
     ELSE [subcommand |-> args[i], args |-> argsAfter(args, i)]

\* One iteration of the loop over c.Args.
processArg ==
  /\ pc = "loop"
  /\ idx <= Len(Args)
  /\ LET arg == Args[idx] IN
     IF arg = sDashDash
     THEN \* break
          /\ pc' = "post"
          /\ UNCHANGED <<idx, subcommand, subcommandArgs, topFlags, isHelp, isVersion>>
     ELSE IF isHelpArg(arg)
     THEN \* continue
          /\ isHelp' = TRUE
          /\ idx' = idx + 1
          /\ UNCHANGED <<pc, subcommand, subcommandArgs, topFlags, isVersion>>
     ELSE IF subcommand = <<>> /\ isVersionArg(arg)
     THEN \* continue
          /\ isVersion' = TRUE
          /\ idx' = idx + 1
          /\ UNCHANGED <<pc, subcommand, subcommandArgs, topFlags, isHelp>>
     ELSE /\ topFlags' = IF subcommand = <<>> /\ isFlagArg(arg)
                         THEN Append(topFlags, arg) ELSE topFlags
          /\ UNCHANGED <<isHelp, isVersion>>
          /\ IF subcommand = <<>> /\ isCommandArg(arg)
             THEN IF commandNested
                  THEN IF ContainsRune(arg, " ")
                       THEN \* return: processArgs and init are over
                            /\ subcommand' = <<>>
                            /\ pc' = "done"
                            /\ UNCHANGED <<idx, subcommandArgs>>
                       ELSE LET r == nestedSubcommand(commandTree, Args, idx) IN
                            /\ subcommand' = r.subcommand
                            /\ subcommandArgs' = r.args
                            /\ idx' = idx + 1
                            /\ UNCHANGED pc
                  ELSE /\ subcommand' = arg
                       /\ subcommandArgs' = argsAfter(Args, idx)
                       /\ idx' = idx + 1
                       /\ UNCHANGED pc
             ELSE /\ idx' = idx + 1
                  /\ UNCHANGED <<pc, subcommand, subcommandArgs>>
  /\ UNCHANGED <<colour, config, callers, commandTree, commandNested, commandHidden, observed>>

\* args := c.topFlags; args = append(args, c.subcommandArgs...)
defaultArgs_dropFlags(flags, args) == args
defaultArgs(flags, args) == flags \o args

\* After the loop (left by its end or by break): the switch to the default
\* command.  Its end is the end of init: once has completed.
processArgsDefault ==
  /\ pc = "post" \/ (pc = "loop" /\ idx > Len(Args))
  /\ IF subcommand = <<>> /\ Empty \in Commands
     THEN /\ subcommandArgs' = defaultArgs(topFlags, subcommandArgs)
          /\ topFlags' = <<>>
     ELSE UNCHANGED <<subcommandArgs, topFlags>>
  /\ pc' = "done"
  /\ UNCHANGED <<colour, config, callers, idx, commandTree, commandNested, commandHidden,
                 subcommand, isHelp, isVersion, observed>>

\* -------------------------------------------------------------------- help

\* helpCommands(prefix): the keys of the immediate subcommands of prefix
\* that are not hidden.
helpCommands_showHidden(prefix) ==
  LET p == IF prefix # <<>> /\ prefix[Len(prefix)] # " "
           THEN prefix \o <<" ">> ELSE prefix
  IN {k \in DOMAIN commandTree :
        /\ HasPrefix(k, p)
        /\ ~ContainsRune(SubSeq(k, Len(p) + 1, Len(k)), " ")}
helpCommands(prefix) ==
  LET p == IF prefix # <<>> /\ prefix[Len(prefix)] # " "
           THEN prefix \o <<" ">> ELSE prefix
  IN {k \in DOMAIN commandTree :
        /\ HasPrefix(k, p)
        /\ ~ContainsRune(SubSeq(k, Len(p) + 1, Len(k)), " ")
        /\ k \notin commandHidden}

\* subcommandParent(): the parent of the subcommand, "" for the root.
subcommandParent_self == subcommand
subcommandParent ==
  IF subcommand = <<>> THEN subcommand
  ELSE LET sub == TrimRight(subcommand)
           n == LastIndex(sub, " ")
       IN IF n = 0 THEN <<>> ELSE SubSeq(sub, 1, n - 1)

\* What Run writes for c.HelpFunc(commands): the callback is the caller's,
\* the text it returns is known by the map of factories it was given.
HelpFuncText(commands) == [w |-> "HelpFunc", commands |-> commands]

\* The entry padded by the length of the name instead of the key's.
subcommandEntry_padByName(k, longest) ==
  LET name == IF LastIndex(k, " ") > 0 THEN SubSeq(k, LastIndex(k, " ") + 1, Len(k)) ELSE k
  IN [Name |-> name, NameAligned |-> name \o Repeat(longest - Len(name))]

\* The entry of the template data for the subcommand with key k, among
\* keys of which the longest has length `longest`.
subcommandEntry(k, longest) ==
  LET n == LastIndex(k, " ")
      name == IF n > 0 THEN SubSeq(k, n + 1, Len(k)) ELSE k
  IN [Name |-> name, NameAligned |-> name \o Repeat(longest - Len(k))]

\* The length of the longest of the keys.
longestKey(keys) ==
  IF keys = {} THEN 0
  ELSE LET k == CHOOSE k \in keys : \A o \in keys : Len(o) <= Len(k) IN Len(k)

\* commandHelp(out, command) for the resolved subcommand, when the factories
\* of the keys in `failing` return (nil, err).  The sorted children are
\* instantiated in order; a failed one is reported on ErrorWriter and then
\* dereferenced (sub.Help() on a nil Command), which ends the call.
\* calls: the factories invoked; err: the writes to ErrorWriter; panic:
\* whether the call ended in the nil dereference; body: the template data
\* as the default template renders it; out: what is written to out
\* otherwise, by t.Execute; errw: what is written to ErrorWriter after it.
\* The template is parsed first: an unparsable one is replaced by a template
\* of the diagnostic, which is then executed to out like any other.  A
\* template whose execution fails has written to out what came before the
\* failure.  The synthesized placeholders have no template of their own.
commandHelp(failing) ==
  LET keys == IF commandNested THEN SortStrings(helpCommands(subcommand)) ELSE <<>>
      bad == {n \in 1..Len(keys) : keys[n] \in failing}
      stop == IF bad = {} THEN Len(keys)
              ELSE CHOOSE n \in bad : \A m \in bad : n <= m
      longest == longestKey({keys[n] : n \in 1..Len(keys)})
      tpl == IF commandTree[subcommand] = "placeholder" THEN "default" ELSE helpTemplate
      data == [w |-> "commandHelp",
               SubcommandName |-> subcommand,
               Help |-> commandTree[subcommand],
               Subcommands |-> [n \in 1..Len(keys) |-> subcommandEntry(keys[n], longest)]]
  IN [calls |-> [n \in 1..stop |-> [key |-> keys[n], ok |-> keys[n] \notin failing]],
      err |-> IF bad = {} THEN <<>>
              ELSE <<[w |-> "Error instantiating", key |-> keys[stop]]>>,
      panic |-> bad # {},
      body |-> data,
      out |-> CASE tpl = "default" -> <<data>>
                [] tpl = "unparsable" ->
                     <<[w |-> "Internal error! Failed to parse command help template"]>>
                [] tpl = "failsAtStart" -> <<>>
                [] tpl = "failsMidway" -> <<[w |-> "commandHelp, cut short"]>>,
      errw |-> IF tpl \in {"failsAtStart", "failsMidway"}
               THEN <<[w |-> "Internal error rendering help"]>> ELSE <<>>]

\* --------------------------------------------------------------------- Run

\* c.IsVersion() && c.Version != ""
versionRequested_afterHelp == isVersion /\ Version # "" /\ ~isHelp
versionRequested == isVersion /\ Version # ""

\* c.IsHelp() && c.Subcommand() == ""
rootHelpRequested_unlessDefault == isHelp /\ subcommand = <<>> /\ <<>> \notin DOMAIN commandTree
rootHelpRequested == isHelp /\ subcommand = <<>>

\* command, err := raw.(CommandFactory)(); err != nil
constructionFailed_unlessHelp(failing) == subcommand \in failing /\ ~isHelp
constructionFailed(failing) == subcommand \in failing

\* What Run does after once.Do(c.init), when the factories of the keys in
\* `failing` return (nil, err) and the resolved command's Run, if it is a
\* registered one, returns code: the return values, the writes, the calls.
Dispatch(failing, code) ==
  LET none == [returned |-> TRUE, exitCode |-> 0, runErr |-> FALSE, panicked |-> FALSE,
               helpOut |-> <<>>, errOut |-> <<>>, factoryCalls |-> <<>>, runCalls |-> <<>>]
      made == <<[key |-> subcommand, ok |-> subcommand \notin failing]>>
      h == commandHelp(failing)
      panic == [none EXCEPT !.returned = FALSE, !.panicked = TRUE]
  IN
  IF versionRequested
  THEN [none EXCEPT !.helpOut = <<[w |-> "Version", text |-> Version]>>]
  ELSE IF rootHelpRequested
  THEN [none EXCEPT !.helpOut = <<HelpFuncText(helpCommands(subcommand))>>]
  ELSE IF subcommand \notin DOMAIN commandTree
  THEN [none EXCEPT !.errOut = <<HelpFuncText(helpCommands(subcommandParent))>>,
                    !.exitCode = 127]
  ELSE IF constructionFailed(failing)
  THEN [none EXCEPT !.factoryCalls = made, !.exitCode = 1, !.runErr = TRUE]
  ELSE IF isHelp
  THEN IF h.panic
       THEN [panic EXCEPT !.factoryCalls = made \o h.calls, !.errOut = h.err]
       ELSE [none EXCEPT !.factoryCalls = made \o h.calls, !.helpOut = h.out,
                         !.errOut = h.errw]
  ELSE IF Len(topFlags) > 0
  THEN IF h.panic
       THEN [panic EXCEPT !.factoryCalls = made \o h.calls,
                          !.errOut = <<[w |-> "Invalid flags"]>> \o h.err]
       ELSE [none EXCEPT !.factoryCalls = made \o h.calls,
                         !.errOut = <<[w |-> "Invalid flags"]>> \o h.out \o h.errw,
                         !.exitCode = 1]
  ELSE LET result == IF commandTree[subcommand] = "placeholder" THEN RunResultHelp ELSE code
           ran == <<[key |-> subcommand, args |-> subcommandArgs, result |-> result]>>
       IN IF result = RunResultHelp
          THEN IF h.panic
               THEN [panic EXCEPT !.factoryCalls = made \o h.calls, !.runCalls = ran,
                                  !.errOut = h.err]
               ELSE [none EXCEPT !.factoryCalls = made \o h.calls, !.runCalls = ran,
                                 !.errOut = h.out \o h.errw, !.exitCode = 1]
          ELSE [none EXCEPT !.factoryCalls = made, !.runCalls = ran, !.exitCode = result]

\* The registered keys: their factories are the caller's and may fail.
userKeys == {k \in DOMAIN commandTree : commandTree[k] = "user"}

\* The registered keys whose factories Run can invoke: that of the subcommand
\* and those of its listed subcommands.  The other factories are never
\* called, so their behaviour is no input of Run.
consultedKeys == userKeys \cap ({subcommand} \cup helpCommands(subcommand))

\* Run(), once init has completed.  The behaviour of the caller's factories
\* and of the resolved command is the input.
Run ==
  /\ pc = "done"
  /\ ~returned /\ ~panicked
  /\ \E failing \in SUBSET consultedKeys, code \in RunResults :
     \E r \in {Dispatch(failing, code)} :
       /\ returned' = r.returned
       /\ exitCode' = r.exitCode
       /\ runErr' = r.runErr
       /\ panicked' = r.panicked
       /\ helpOut' = helpOut \o r.helpOut
       /\ errOut' = errOut \o r.errOut
       /\ factoryCalls' = factoryCalls \o r.factoryCalls
       /\ runCalls' = runCalls \o r.runCalls
  /\ UNCHANGED <<colour, config, callers, pc, idx, derived>>

Next == init \/ processArg \/ processArgsDefault \/ Run

Spec == Init /\ [][Next]_vars

\* ------------------------------------------------ what the claims speak of

\* The public accessors, once init has completed.
IsHelp == isHelp
IsVersion == isVersion
Subcommand == subcommand
SubcommandArgs == subcommandArgs

\* The registry as the caller gave it: flat when no key contains a space.
FlatRegistry == \A k \in Commands : ~ContainsRune(k, " ")
NestedRegistry == ~FlatRegistry

HelpTokens == {sH, sHelp, sHHelp}
VersionTokens == {sV, sVersion, sVVersion}

\* The index of the first "--" of Args, Len(Args) + 1 when there is none.
FirstDashDash ==
  IF \E n \in 1..Len(Args) : Args[n] = sDashDash
  THEN CHOOSE n \in 1..Len(Args) :
         Args[n] = sDashDash /\ \A m \in 1..(n - 1) : Args[m] # sDashDash
  ELSE Len(Args) + 1

\* A token that can begin a command path: non-empty, no leading dash.
PlainToken(t) == t # <<>> /\ t[1] # "-"

\* The index of the first plain token before any "--", 0 when there is none.
PathStart ==
  IF \E n \in 1..(FirstDashDash - 1) : PlainToken(Args[n])
  THEN CHOOSE n \in 1..(FirstDashDash - 1) :
         PlainToken(Args[n]) /\ \A m \in 1..(n - 1) : ~PlainToken(Args[m])
  ELSE 0

\* The tokens of Args from index n on.
From(n) == SubSeq(Args, n, Len(Args))

\* Run has ended: it has returned, or it was ended by a panic.
RunEnded == returned \/ panicked

\* The outcomes of Run, by what Run wrote, called and returned.
VersionShown ==
  returned /\ exitCode = 0 /\ \E n \in 1..Len(helpOut) : helpOut[n].w = "Version"
HelpShown ==
  returned /\ exitCode = 0 /\ \E n \in 1..Len(helpOut) : helpOut[n].w \in {"HelpFunc", "commandHelp"}
CommandExecuted == returned /\ runCalls # <<>>
UnresolvedPath == returned /\ exitCode = 127 /\ factoryCalls = <<>>
LeadingFlagError ==
  returned /\ exitCode = 1 /\ \E n \in 1..Len(errOut) : errOut[n].w = "Invalid flags"
ConstructionError == returned /\ exitCode = 1 /\ runErr

\* The number of the predicates of the sequence ps that hold.
RECURSIVE HowMany(_)
HowMany(ps) == IF ps = <<>> THEN 0 ELSE (IF Head(ps) THEN 1 ELSE 0) + HowMany(Tail(ps))

\* The loop over Args was left by the return inside it: init has completed
\* while the loop variable still points at a token other than "--".
Aborted == pc = "done" /\ idx <= Len(Args) /\ Args[idx] # sDashDash

\* The flags recorded as leading flags when no plain token precedes "--":
\* the tokens before "--" that start with a dash and are neither a help nor
\* a version token, in order.
LeadingFlags ==
  SelectSeq(SubSeq(Args, 1, FirstDashDash - 1),
            LAMBDA t : t # <<>> /\ t[1] = "-" /\ t \notin HelpTokens /\ t \notin VersionTokens)

\* The parent of path p: p without its last segment, "" for a path of one
\* segment.
ParentPath(p) ==
  LET n == LastIndex(p, " ") IN IF n = 0 THEN <<>> ELSE SubSeq(p, 1, n - 1)

\* The index of the last token of the candidate path that starts at index
\* n: the token before the first one that is blank, contains a space or
\* starts with a dash.
CandidateEnd(n) ==
  IF \E m \in n..Len(Args) : endsSubcommand(Args[m])
  THEN (CHOOSE m \in n..Len(Args) :
          endsSubcommand(Args[m]) /\ \A q \in n..(m - 1) : ~endsSubcommand(Args[q])) - 1
  ELSE Len(Args)

\* The ends m of the leading runs of the candidate that name a key of the
\* registry, and the deepest of them.
NamedRuns ==
  {m \in PathStart..CandidateEnd(PathStart) :
     Join(SubSeq(Args, PathStart, m)) \in DOMAIN commandTree}
DeepestRun == CHOOSE m \in NamedRuns : \A q \in NamedRuns : q <= m

\* ------------------------------------------------------------------ claims

\* C1: every Run ends in exactly one of the outcomes version shown, help
\* shown, command executed, unresolved path (127), leading-flag error (1).
\* The return of a construction error (1, err) is counted here as a sixth
\* outcome of its own, so that only a Run with no outcome at all or with
\* two of them violates the statement.
C1_ExactlyOneOutcome ==
  RunEnded =>
    HowMany(<<VersionShown, HelpShown, CommandExecuted, UnresolvedPath,
              LeadingFlagError, ConstructionError>>) = 1

\* C2: with a flat registry, Subcommand() is the first token before any
\* "--" that is non-empty and does not start with '-', SubcommandArgs() is
\* every token after it, unchanged; without such a token no command is
\* named (blank tokens never become the command).
C2_FlatSubcommand ==
  (pc = "done" /\ FlatRegistry) =>
    IF PathStart = 0 THEN Subcommand = <<>>
    ELSE Subcommand = Args[PathStart] /\ SubcommandArgs = From(PathStart + 1)

\* C2 witness: a flat registry, a leading blank token skipped, the command
\* "a" found after it and the help token after it passed on as its argument.
C2_Witness ==
  /\ pc = "done" /\ FlatRegistry
  /\ Args = <<Empty, sA, sHHelp>>
  /\ Subcommand = sA /\ SubcommandArgs = <<sHHelp>>

\* C3: with a nested registry, the resolved command is the deepest key of
\* the registry whose segments equal a leading run of the candidate tokens,
\* and the tokens after that run are its arguments, whenever a leading run
\* of the candidate names a key.
C3_DeepestKeyResolved ==
  (pc = "done" /\ NestedRegistry /\ PathStart # 0
     /\ ~ContainsRune(Args[PathStart], " ") /\ NamedRuns # {}) =>
    /\ Subcommand = Join(SubSeq(Args, PathStart, DeepestRun))
    /\ SubcommandArgs = From(DeepestRun + 1)

\* C4: with a nested registry, when the first plain token is not a key but
\* has a (non-empty) key as a proper character prefix, Run returns 127 and
\* runs no command (the version short-circuit aside).
C4_CharPrefixRejected ==
  (returned /\ NestedRegistry /\ PathStart # 0
     /\ ~(IsVersion /\ Version # "")
     /\ Args[PathStart] \notin DOMAIN commandTree
     /\ \E k \in DOMAIN commandTree : k # <<>> /\ HasPrefix(Args[PathStart], k)) =>
    exitCode = 127 /\ runCalls = <<>>

\* C5 as stated: IsHelp() is true exactly when a help token occurs in Args
\* before the first "--", for flat and nested registries alike.
C5_HelpBeforeDashDash ==
  pc = "done" =>
    (IsHelp <=> \E n \in 1..(FirstDashDash - 1) : Args[n] \in HelpTokens)

\* C5 amended: IsHelp() is true exactly when a help token occurs before the
\* position at which the scan stops; the scan stops at the first "--" or,
\* only with a nested registry, earlier at a plain token that contains a
\* space and is met while no command path is identified (classification
\* aborts there, the path stays empty).
C5_HelpBeforeScanStop ==
  pc = "done" =>
    /\ IsHelp <=> \E n \in 1..(idx - 1) : Args[n] \in HelpTokens
    /\ idx <= FirstDashDash
    /\ idx < FirstDashDash =>
         /\ NestedRegistry
         /\ PlainToken(Args[idx]) /\ ContainsRune(Args[idx], " ")
         /\ Subcommand = <<>>
    /\ FlatRegistry => idx = FirstDashDash

\* C5 witness: a nested registry, the long help token after the two
\* segments of the resolved path "a b".
C5_Witness ==
  /\ pc = "done" /\ NestedRegistry
  /\ Args = <<sA, sB, sHHelp>>
  /\ Subcommand = sA_B /\ IsHelp

\* C6: IsVersion() is true exactly when a version token occurs before the
\* first "--" and before the token that begins the command path.
C6_VersionBeforePath ==
  pc = "done" =>
    (IsVersion <=> \E n \in 1..(FirstDashDash - 1) :
                     Args[n] \in VersionTokens /\ (PathStart = 0 \/ n < PathStart))

\* C7 as stated: when the scan ends with no command path identified and a
\* command is registered under "", the default command is executed with the
\* leading flags followed by the accumulated trailing arguments.
C7_DefaultAlwaysExecuted ==
  (RunEnded /\ ~Aborted /\ Subcommand = <<>> /\ Empty \in Commands) =>
    /\ Len(runCalls) = 1
    /\ runCalls[1].key = <<>> /\ runCalls[1].args = SubcommandArgs

\* C7 amended: when the scan ends (at the end of Args or at "--") with no
\* command path identified and a command is registered under "", the
\* leading flags are moved in front of the arguments and leadingFlags is
\* emptied, so Run never ends in the leading-flag error; and unless the
\* version or the root-help short-circuit applies or the factory fails, the
\* default command's Run is invoked once with those arguments and a result
\* other than RunResultHelp is returned unchanged.
C7_DefaultCommand ==
  (pc = "done" /\ ~Aborted /\ Subcommand = <<>> /\ Empty \in Commands) =>
    /\ topFlags = <<>>
    /\ PathStart = 0 => SubcommandArgs = LeadingFlags
    /\ ~LeadingFlagError
    /\ (RunEnded /\ ~(IsVersion /\ Version # "") /\ ~IsHelp /\ ~runErr) =>
         /\ Len(runCalls) = 1
         /\ runCalls[1].key = <<>> /\ runCalls[1].args = SubcommandArgs
         /\ runCalls[1].result # RunResultHelp =>
              returned /\ exitCode = runCalls[1].result

\* C7 witness: flags only, a default command: it ran with the two flags and
\* its result 42 was returned.
C7_Witness ==
  /\ returned /\ Empty \in Commands
  /\ Args = <<sX, sX>>
  /\ runCalls = <<[key |-> <<>>, args |-> <<sX, sX>>, result |-> 42]>>
  /\ exitCode = 42

C9_QuotedPathFails ==
  (RunEnded /\ NestedRegistry /\ PathStart # 0 /\ ContainsRune(Args[PathStart], " ")
     /\ ~(IsVersion /\ Version # "") /\ ~IsHelp) =>
    /\ returned /\ Subcommand = <<>>
    /\ exitCode = 127 /\ runCalls = <<>>

\* C10: when the version flag is set and Version is non-empty, Run writes
\* the version to the help sink and returns 0, and nothing else happens: no
\* factory, no command, no help, no 127, no leading-flag error.
C10_VersionFirst ==
  (RunEnded /\ IsVersion /\ Version # "") =>
    /\ returned /\ exitCode = 0 /\ ~runErr
    /\ helpOut = <<[w |-> "Version", text |-> Version]>>
    /\ errOut = <<>>
    /\ factoryCalls = <<>> /\ runCalls = <<>>

\* C10 witness: the version flag together with a help flag and an unknown
\* command: the version was written and 0 returned.
C10_Witness ==
  /\ returned /\ exitCode = 0
  /\ Version # "" /\ Commands = {sA}
  /\ Args = <<sV, sH, sB>>
  /\ IsVersion /\ IsHelp /\ Subcommand = sB
  /\ helpOut = <<[w |-> "Version", text |-> Version]>>

\* The keys of one segment that are not hidden: the top-level commands a
\* root help lists.  Whether the empty key of a default command belongs to
\* the list is the matter of C18 and left open where this set is compared.
TopLevelVisible ==
  {k \in DOMAIN commandTree : k # <<>> /\ ~ContainsRune(k, " ") /\ k \notin HiddenCommands}

\* The command path is a non-empty key of the registry.
Resolved == Subcommand # <<>> /\ Subcommand \in DOMAIN commandTree

C12_CommandHelp ==
  (RunEnded /\ IsHelp /\ Resolved /\ ~(IsVersion /\ Version # "") /\ ~runErr) =>
    /\ returned /\ exitCode = 0
    /\ Len(helpOut) = 1
    /\ helpOut[1].w = "commandHelp" /\ helpOut[1].SubcommandName = Subcommand
    /\ errOut = <<>> /\ runCalls = <<>>

\* A flag that is recorded as a leading flag: a non-empty token that starts
\* with a dash and is neither a help token, a version token nor "--".
FlagToken(t) ==
  t # <<>> /\ t[1] = "-" /\ t \notin HelpTokens /\ t \notin VersionTokens /\ t # sDashDash

\* A flag precedes the first plain token.
FlagBeforePath == PathStart # 0 /\ \E n \in 1..(PathStart - 1) : FlagToken(Args[n])

\* C13: when a flag precedes a command path that resolves and help is not
\* requested, Run returns 1, does not invoke the command's Run and writes
\* the diagnostic followed by the command's help to the error sink (the
\* version short-circuit and a failing factory of the command itself aside).
C13_LeadingFlagError ==
  (RunEnded /\ FlagBeforePath /\ Resolved /\ ~IsHelp
     /\ ~(IsVersion /\ Version # "") /\ ~runErr) =>
    /\ returned /\ exitCode = 1 /\ runCalls = <<>>
    /\ Len(errOut) = 2 /\ errOut[1] = [w |-> "Invalid flags"]
    /\ errOut[2].w = "commandHelp" /\ errOut[2].SubcommandName = Subcommand
    /\ helpOut = <<>>

\* C14: when a command is executed its Run is invoked exactly once, with
\* SubcommandArgs(), and Run returns the command's result unchanged, except
\* that RunResultHelp gives exit code 1 with the command's help on the error
\* sink.
C14_ResultReturned ==
  (RunEnded /\ runCalls # <<>>) =>
    /\ Len(runCalls) = 1
    /\ runCalls[1].key = Subcommand /\ runCalls[1].args = SubcommandArgs
    /\ returned /\ helpOut = <<>>
    /\ IF runCalls[1].result = RunResultHelp
       THEN /\ exitCode = 1
            /\ Len(errOut) = 1
            /\ errOut[1].w = "commandHelp" /\ errOut[1].SubcommandName = Subcommand
       ELSE exitCode = runCalls[1].result /\ errOut = <<>>

\* C15: when the factory of the resolved command returns a construction
\* error, Run returns exit code 1 together with the error; no other factory
\* is invoked, no command's Run is invoked and nothing is written to either
\* sink, whether or not a help flag or leading flags are present.
C15_ConstructionError ==
  (RunEnded /\ factoryCalls # <<>> /\ ~factoryCalls[1].ok) =>
    /\ factoryCalls = <<[key |-> Subcommand, ok |-> FALSE]>>
    /\ returned /\ exitCode = 1 /\ runErr
    /\ runCalls = <<>>
    /\ helpOut = <<>> /\ errOut = <<>>

\* C15 witness: a leading flag, the command "a" and a help flag; the factory
\* of "a" failed and Run returned 1 with the error.
C15_Witness ==
  /\ returned /\ exitCode = 1 /\ runErr
  /\ Commands = {sA} /\ Args = <<sX, sA, sH>>
  /\ IsHelp /\ topFlags = <<sX>> /\ Subcommand = sA
  /\ factoryCalls = <<[key |-> sA, ok |-> FALSE]>>

\* The last segment of key k.
LastSegment(k) ==
  LET n == LastIndex(k, " ") IN IF n = 0 THEN k ELSE SubSeq(k, n + 1, Len(k))

\* The registry keys that are the immediate children of path p: their
\* parent is p.  The empty key is the root itself and nobody's child.
Children(p) == {c \in DOMAIN commandTree : c # <<>> /\ ParentPath(c) = p}

\* The names a subcommand list of p is to show: the last segments of the
\* children of p that are not hidden.
ChildNames(p) == {LastSegment(k) : k \in Children(p) \ HiddenCommands}

\* The names shown in the subcommand list of a rendered command help.
Listed(body) == {body.Subcommands[n].Name : n \in 1..Len(body.Subcommands)}

\* C16: running an ancestor path that was not registered itself resolves to
\* the synthesized placeholder: Run returns 1 and writes to the error sink
\* the placeholder's help with the list of the ancestor's immediate children
\* (no help flag, no leading flags, no version short-circuit).
C16_PlaceholderHelp ==
  (RunEnded /\ Subcommand \in DOMAIN commandTree /\ Subcommand \notin Commands
     /\ ~IsHelp /\ topFlags = <<>> /\ ~(IsVersion /\ Version # "")) =>
    /\ returned /\ exitCode = 1 /\ helpOut = <<>>
    /\ Len(runCalls) = 1 /\ runCalls[1].result = RunResultHelp
    /\ Len(errOut) = 1
    /\ errOut[1].w = "commandHelp" /\ errOut[1].Help = "placeholder"
    /\ Listed(errOut[1]) = ChildNames(Subcommand) /\ ChildNames(Subcommand) # {}

\* ------------------------------------------------ hidden commands: a model

\* A second specification, for the claims about HiddenCommands: the same
\* program, constructed with a list of hidden commands, over fewer tokens.
MaxHiddenArgs == 2
MaxHidden == 2

sA_AB == <<"a", " ", "a", "b">>

HiddenArgTokens == {sH, sX, sA, sB}
HiddenCommandKeys == {Empty, sA, sB, sA_AB, sA_B, sA_B_A}

InitHidden ==
  /\ Args \in SeqsUpTo(HiddenArgTokens, MaxHiddenArgs)
  /\ Commands \in SUBSET HiddenCommandKeys
  /\ HiddenCommands \in {h \in SUBSET HiddenCommandKeys : Cardinality(h) <= MaxHidden}
  /\ Version = ""
  /\ helpTemplate = "default"
  /\ pc = "new"
  /\ idx = 0
  /\ commandTree = <<>>
  /\ commandNested = FALSE
  /\ commandHidden = {}
  /\ subcommand = <<>>
  /\ subcommandArgs = <<>>
  /\ topFlags = <<>>
  /\ isHelp = FALSE
  /\ isVersion = FALSE
  /\ returned = FALSE
  /\ exitCode = 0
  /\ runErr = FALSE
  /\ panicked = FALSE
  /\ helpOut = <<>>
  /\ errOut = <<>>
  /\ factoryCalls = <<>>
  /\ runCalls = <<>>
  /\ callersInit
  /\ colourInit

SpecHidden == InitHidden /\ [][Next]_vars

\* The segments of path p: p split at its spaces.
RECURSIVE Segments(_)
Segments(p) ==
  IF p = <<>> THEN <<>>
  ELSE IF ContainsRune(p, " ")
       THEN LET n == CHOOSE n \in 1..Len(p) : p[n] = " " /\ \A m \in 1..(n - 1) : p[m] # " "
            IN <<SubSeq(p, 1, n - 1)>> \o Segments(SubSeq(p, n + 1, Len(p)))
       ELSE <<p>>

\* Everything Run wrote, to either sink.
Written == helpOut \o errOut

\* The path whose listing Run passes to HelpFunc: the parent of the
\* attempted path when the path is unresolved, the root for the root help.
ListingPath == IF exitCode = 127 THEN ParentPath(Subcommand) ELSE <<>>

\* The names under which the hidden keys with parent p would show in the
\* subcommand list of p (for the root, the empty key included).
HiddenNames(p) ==
  {LastSegment(h) : h \in {k \in HiddenCommands \cap DOMAIN commandTree : ParentPath(k) = p}}

\* C17: a key listed in HiddenCommands is in no listing Run writes (those
\* passed to HelpFunc, and the subcommand lists of a command's help), its
\* non-hidden siblings and children are listed where they belong, and the
\* hidden path itself still resolves (the tokens of its segments name it)
\* and is executed.
C17_HiddenNotListed ==
  /\ \A n \in 1..Len(Written) :
       /\ Written[n].w = "HelpFunc" =>
            /\ Written[n].commands \cap HiddenCommands = {}
            /\ Children(ListingPath) \ HiddenCommands \subseteq Written[n].commands
       /\ (Written[n].w = "commandHelp" /\ NestedRegistry) =>
            /\ Listed(Written[n]) \cap HiddenNames(Subcommand) = {}
            /\ ChildNames(Subcommand) \subseteq Listed(Written[n])
  /\ pc = "done" =>
       \A h \in (HiddenCommands \cap DOMAIN commandTree) \ {Empty} :
         Args = Segments(h) => Subcommand = h /\ SubcommandArgs = <<>>
  /\ (RunEnded /\ Resolved /\ Subcommand \in HiddenCommands
        /\ ~IsHelp /\ topFlags = <<>> /\ ~runErr) =>
       Len(runCalls) = 1 /\ runCalls[1].key = Subcommand

\* C17 witness: "a b" is hidden, its sibling "a ab" is not; the help of "a"
\* was written and its subcommand list shows the sibling only.
C17_Witness ==
  /\ returned /\ exitCode = 0
  /\ Commands = {sA, sA_AB, sA_B} /\ HiddenCommands = {sA_B}
  /\ Args = <<sA, sH>>
  /\ Len(helpOut) = 1 /\ helpOut[1].w = "commandHelp"
  /\ Listed(helpOut[1]) = {sAB}

\* C18: every listing Run writes for a path p (the root included) is exactly
\* the set of the non-hidden keys whose parent is p, p itself excluded: the
\* listings passed to HelpFunc by key, the subcommand lists of a command's
\* help by last segment.
C18_ImmediateChildren ==
  \A n \in 1..Len(Written) :
    /\ Written[n].w = "HelpFunc" =>
         Written[n].commands = Children(ListingPath) \ HiddenCommands
    /\ (Written[n].w = "commandHelp" /\ NestedRegistry) =>
         Listed(Written[n]) = ChildNames(Subcommand)

\* ------------------------------------------------ concurrent callers: a model

\* A third specification, for the claims about c.once: the goroutines of
\* Threads call the public methods of one CLI value in any interleaving,
\* MaxCalls calls in all.  Every public method starts with
\* c.once.Do(c.init); the steps of c.init are those of init, processArg and
\* processArgsDefault.
MaxOnceArgs == 2
MaxCalls == 3

OnceArgTokens == {sH, sV, sA, sB}
OnceRegistries == {{sA}, {Empty, sA_B}}
Accessors == {"IsHelp", "IsVersion", "Subcommand", "SubcommandArgs"}
Methods == Accessors \cup {"Run"}

InitOnce ==
  /\ Args \in SeqsUpTo(OnceArgTokens, MaxOnceArgs)
  /\ Commands \in OnceRegistries
  /\ HiddenCommands = {}
  /\ Version = "1.0.0"
  /\ helpTemplate = "default"
  /\ pc = "new"
  /\ idx = 0
  /\ commandTree = <<>>
  /\ commandNested = FALSE
  /\ commandHidden = {}
  /\ subcommand = <<>>
  /\ subcommandArgs = <<>>
  /\ topFlags = <<>>
  /\ isHelp = FALSE
  /\ isVersion = FALSE
  /\ returned = FALSE
  /\ exitCode = 0
  /\ runErr = FALSE
  /\ panicked = FALSE
  /\ helpOut = <<>>
  /\ errOut = <<>>
  /\ factoryCalls = <<>>
  /\ runCalls = <<>>
  /\ callersInit
  /\ colourInit

\* What a caller of once.Do waits for: the Once is done, c.init has
\* returned.
onceDone_early == pc # "new"
onceDone == pc = "done"

\* Goroutine t calls method m, whose first statement is c.once.Do(c.init):
\* when the Once is done the call goes on at once; when nobody runs c.init
\* yet, t is the one to run it; otherwise t waits for the one that does.
\* One call of Run is followed.
Call(t, m) ==
  /\ tstate[t] = "idle"
  /\ ncalls < MaxCalls
  /\ m = "Run" => /\ ~returned /\ ~panicked
                  /\ \A u \in Threads : tstate[u] = "idle" \/ top[u] # "Run"
  /\ top' = [top EXCEPT ![t] = m]
  /\ ncalls' = ncalls + 1
  /\ IF onceDone
     THEN /\ tstate' = [tstate EXCEPT ![t] = "ready"]
          /\ UNCHANGED <<owner, wasBlocked>>
     ELSE IF pc = "new" /\ owner = 0
     THEN /\ tstate' = [tstate EXCEPT ![t] = "init"]
          /\ owner' = t
          /\ UNCHANGED wasBlocked
     ELSE /\ tstate' = [tstate EXCEPT ![t] = "blocked"]
          /\ wasBlocked' = wasBlocked \cup {t}
          /\ UNCHANGED owner
  /\ UNCHANGED <<colour, config, pc, idx, derived, observed, seen>>

call == \E t \in Threads, m \in Methods : Call(t, m)

\* The goroutine that owns the Once starts c.init.
onceInit == owner # 0 /\ init

\* once.Do returns to goroutine t: to the one that ran c.init, and to those
\* that waited for it.
OnceReturn(t) ==
  /\ tstate[t] \in {"init", "blocked"}
  /\ onceDone
  /\ tstate' = [tstate EXCEPT ![t] = "ready"]
  /\ UNCHANGED <<colour, config, pc, idx, derived, observed, top, ncalls, owner, wasBlocked, seen>>

onceReturn == \E t \in Threads : OnceReturn(t)

\* The value accessor m returns: the field it reads.
fieldOf(m) ==
  CASE m = "IsHelp" -> isHelp
    [] m = "IsVersion" -> isVersion
    [] m = "Subcommand" -> subcommand
    [] m = "SubcommandArgs" -> subcommandArgs

\* An accessor returns its field to goroutine t.
Return(t) ==
  /\ tstate[t] = "ready"
  /\ top[t] \in Accessors
  /\ seen' = [seen EXCEPT ![top[t]] = @ \cup {fieldOf(top[t])}]
  /\ tstate' = [tstate EXCEPT ![t] = "idle"]
  /\ UNCHANGED <<colour, config, pc, idx, derived, observed, top, ncalls, owner, wasBlocked>>

return == \E t \in Threads : Return(t)

\* The body of Run after once.Do, in a goroutine that called Run.
onceRun == (\E t \in Threads : tstate[t] = "ready" /\ top[t] = "Run") /\ Run

\* Run returns to goroutine t.
ReturnRun(t) ==
  /\ tstate[t] = "ready"
  /\ top[t] = "Run"
  /\ returned
  /\ tstate' = [tstate EXCEPT ![t] = "idle"]
  /\ UNCHANGED <<colour, config, pc, idx, derived, observed, top, ncalls, owner, wasBlocked, seen>>

returnRun == \E t \in Threads : ReturnRun(t)

NextOnce ==
  \/ call
  \/ onceInit
  \/ processArg
  \/ processArgsDefault
  \/ onceReturn
  \/ return
  \/ onceRun
  \/ returnRun

SpecOnce == InitOnce /\ [][NextOnce]_vars

\* C19: c.init runs at most once and nothing computes the derived state
\* again: once the initializer has started it never starts again, and after
\* it has finished the classification never changes; once.Do returns to a
\* caller only after the initializer has finished; and every accessor
\* returns the same value at each of its calls, the final value of its
\* field.
C19_InitOnce ==
  /\ [](\A t \in Threads : tstate[t] = "ready" => pc = "done")
  /\ [](\A m \in Accessors : Cardinality(seen[m]) <= 1)
  /\ [](pc = "done" =>
          /\ seen.IsHelp \subseteq {isHelp}
          /\ seen.IsVersion \subseteq {isVersion}
          /\ seen.Subcommand \subseteq {subcommand}
          /\ seen.SubcommandArgs \subseteq {subcommandArgs})
  /\ [][pc # "new" => pc' # "new"]_vars
  /\ [][pc = "done" => pc' = "done" /\ UNCHANGED derived]_vars

\* C19 witness: goroutine 2 made its first call while goroutine 1 ran the
\* initializer, waited, and both have since got the same classification:
\* help requested for the command "a".
C19_Witness ==
  /\ pc = "done" /\ owner = 1 /\ 2 \in wasBlocked
  /\ \A t \in Threads : tstate[t] = "idle"
  /\ ncalls = MaxCalls
  /\ Args = <<sA, sH>>
  /\ seen.Subcommand = {sA} /\ seen.IsHelp = {TRUE}

\* Sequence s is the end of sequence t.
SuffixOf(s, t) == Len(s) <= Len(t) /\ SubSeq(t, Len(t) - Len(s) + 1, Len(t)) = s

\* C20: with a nested registry the candidate path runs over the consecutive
\* tokens from the first plain token on that are non-empty, have no space
\* and no leading dash; the token that ends it and every token after it are
\* passed on unchanged and in order: they are the end of SubcommandArgs().
C20_CandidateEndPassedOn ==
  (pc = "done" /\ NestedRegistry /\ PathStart # 0 /\ ~ContainsRune(Args[PathStart], " ")) =>
    SuffixOf(From(CandidateEnd(PathStart) + 1), SubcommandArgs)

\* C21: tokens after the first "--" are never inspected but keep their
\* place: whenever a command is executed, the named one or the default
\* command, every token that follows "--" in Args is, in order, the end of
\* the arguments passed to that command.
C21_TokensAfterDashDash ==
  (RunEnded /\ runCalls # <<>> /\ FirstDashDash <= Len(Args)) =>
    SuffixOf(From(FirstDashDash + 1), runCalls[1].args)

\* The ancestors of path p: what is left after trimming at the last space,
\* repeatedly.
RECURSIVE Ancestors(_)
Ancestors(p) ==
  IF ContainsRune(p, " ") THEN {ParentPath(p)} \cup Ancestors(ParentPath(p)) ELSE {}

\* C22: after the registry is built, every ancestor path of every key that
\* contains a space (trimmed at the last space, again and again) is a key of
\* the registry too, at every depth: no intermediate path dangles, each one
\* is found by exact lookup.
C22_NoDanglingAncestor ==
  pc # "new" => \A k \in DOMAIN commandTree : Ancestors(k) \subseteq DOMAIN commandTree

\* Only the deepest key is registered and both its ancestors were synthesized.
C22_Witness ==
  /\ pc # "new"
  /\ Commands = {sA_B_A}
  /\ DOMAIN commandTree = {sA, sA_B, sA_B_A}
  /\ commandTree[sA] = "placeholder"
  /\ commandTree[sA_B] = "placeholder"

ChildPath(name) ==
  IF Subcommand = <<>> THEN name ELSE Subcommand \o <<" ">> \o name

\* The length of the longest name a subcommand list of p is to show.
LongestChildName(p) ==
  LET names == ChildNames(p)
  IN IF names = {} THEN 0
     ELSE Len(CHOOSE s \in names : \A t \in names : Len(t) <= Len(s))

\* s is t followed by spaces only, w characters in all.
PaddedTo(s, t, w) ==
  /\ Len(s) = w
  /\ Len(t) <= w
  /\ SubSeq(s, 1, Len(t)) = t
  /\ \A n \in (Len(t) + 1)..w : s[n] = " "

\* C24: in the subcommand list of a command's help the children come in
\* lexicographic order of their full path, each under its last segment
\* only, and every displayed name is padded with trailing spaces to one
\* width: the length of the longest last segment among the visible children.
C24_SortedAndAligned ==
  \A n \in 1..Len(Written) :
    Written[n].w = "commandHelp" =>
      LET subs == Written[n].Subcommands IN
      /\ \A i \in 1..Len(subs) :
           /\ ~ContainsRune(subs[i].Name, " ")
           /\ ChildPath(subs[i].Name) \in DOMAIN commandTree
           /\ PaddedTo(subs[i].NameAligned, subs[i].Name, LongestChildName(Subcommand))
      /\ \A i \in 1..Len(subs) : \A j \in (i + 1)..Len(subs) :
           StrLess(ChildPath(subs[i].Name), ChildPath(subs[j].Name))

\* C24 witness: the help of "a" lists its children "a ab" and "a b" in this
\* order, as "ab" and "b " (the shorter name padded by one space).
C24_Witness ==
  /\ returned /\ exitCode = 0
  /\ Commands = {sA, sA_AB, sA_B} /\ HiddenCommands = {}
  /\ Args = <<sA, sH>>
  /\ Len(helpOut) = 1 /\ helpOut[1].w = "commandHelp"
  /\ helpOut[1].Subcommands =
       <<[Name |-> sAB, NameAligned |-> sAB],
         [Name |-> sB, NameAligned |-> <<"b", " ">>]>>

\* ------------------------------------------------ help templates: a model

\* A further specification, for the claims about the rendering of a
\* command's help: the same program, the registered commands bringing a
\* help template of their own that may fail to parse or to execute.
MaxTemplateArgs == 2

TemplateArgTokens == {sH, sX, sA, sB}
TemplateCommandKeys == {Empty, sA, sA_B}
HelpTemplates == {"default", "unparsable", "failsAtStart", "failsMidway"}

InitTemplate ==
  /\ Args \in SeqsUpTo(TemplateArgTokens, MaxTemplateArgs)
  /\ Commands \in SUBSET TemplateCommandKeys
  /\ HiddenCommands = {}
  /\ Version = ""
  /\ helpTemplate \in HelpTemplates
  /\ pc = "new"
  /\ idx = 0
  /\ commandTree = <<>>
  /\ commandNested = FALSE
  /\ commandHidden = {}
  /\ subcommand = <<>>
  /\ subcommandArgs = <<>>
  /\ topFlags = <<>>
  /\ isHelp = FALSE
  /\ isVersion = FALSE
  /\ returned = FALSE
  /\ exitCode = 0
  /\ runErr = FALSE
  /\ panicked = FALSE
  /\ helpOut = <<>>
  /\ errOut = <<>>
  /\ factoryCalls = <<>>
  /\ runCalls = <<>>
  /\ callersInit
  /\ colourInit

SpecTemplate == InitTemplate /\ [][Next]_vars

\* The diagnostics of a failed rendering, and the sinks they were written to.
Diagnostics ==
  {"Internal error! Failed to parse command help template",
   "Internal error rendering help"}
DiagnosticIn(sink) == \E n \in 1..Len(sink) : sink[n].w \in Diagnostics

\* C25: when the rendering of a command's help fails (its template fails to
\* parse or to execute), Run still returns its normal exit code (0 for a
\* help request, 1 otherwise) and the diagnostic is on the error sink and
\* not on the help sink.
C25_RenderFailureOnErrorSink ==
  (DiagnosticIn(helpOut) \/ DiagnosticIn(errOut)) =>
    /\ returned /\ ~runErr
    /\ exitCode = IF IsHelp THEN 0 ELSE 1
    /\ DiagnosticIn(errOut)
    /\ ~DiagnosticIn(helpOut)

\* C26: if Subcommand() is non-empty then some run of consecutive tokens of
\* Args spells it (the tokens joined by single spaces are the path) and
\* SubcommandArgs() is everything after that run: between the command path
\* and its arguments no token is dropped, duplicated or replaced.
C26_PathAndArgsPartitionArgs ==
  (pc = "done" /\ Subcommand # <<>>) =>
    \E i \in 1..Len(Args) : \E m \in i..Len(Args) :
      /\ Join(SubSeq(Args, i, m)) = Subcommand
      /\ SubcommandArgs = From(m + 1)

\* C27: during one classification at most one token begins a command path:
\* once the first plain token has been taken as the start of the path and
\* subcommandArgs has been assigned, the steps of the scan over the later
\* tokens change neither the subcommand path nor subcommandArgs, for flat
\* and nested registries, with and without a default command.
C27_OnePathStart ==
  [][(pc = "loop" /\ idx <= Len(Args) /\ PathStart # 0 /\ idx > PathStart)
       => UNCHANGED <<subcommand, subcommandArgs>>]_vars

\* The factory of a listed child failed while a command's help was rendered
\* (the first factory invoked is that of the resolved command itself).
ChildFactoryFailed == \E n \in 2..Len(factoryCalls) : ~factoryCalls[n].ok

\* C28: rendering a command's help with a nested registry completes and
\* Run returns an exit code even when the factory of a listed child returns
\* a construction error: the failure is reported on the error sink and
\* dispatch does not end abnormally.
C28_ChildFailureSurvived ==
  (RunEnded /\ ChildFactoryFailed) =>
    /\ returned /\ ~panicked
    /\ \E n \in 1..Len(errOut) : errOut[n].w = "Error instantiating"

\* ------------------------------------------------------- colours: a model

\* Two further specifications, for the claims about Color: a program that
\* holds the Color values of ColorIds, switches their colour on and off,
\* prints through them (SpecColor) and compares them (SpecEquals).  The CLI
\* value takes no part.
MaxPrints == 2
MaxParams == 2

ColorBold == 1
ColorFgRed == 31
ColorAttributes == {ColorBold, ColorFgRed}

\* A CLI value nobody calls.
cliIdle ==
  /\ Args = <<>>
  /\ Commands = {}
  /\ HiddenCommands = {}
  /\ Version = ""
  /\ helpTemplate = "default"
  /\ pc = "new"
  /\ idx = 0
  /\ commandTree = <<>>
  /\ commandNested = FALSE
  /\ commandHidden = {}
  /\ subcommand = <<>>
  /\ subcommandArgs = <<>>
  /\ topFlags = <<>>
  /\ isHelp = FALSE
  /\ isVersion = FALSE
  /\ returned = FALSE
  /\ exitCode = 0
  /\ runErr = FALSE
  /\ panicked = FALSE
  /\ helpOut = <<>>
  /\ errOut = <<>>
  /\ factoryCalls = <<>>
  /\ runCalls = <<>>
  /\ callersInit
cli == <<config, callers, pc, idx, derived, observed>>

\* NewColor(ColorFgRed): noColor is set to true when NO_COLOR is in the
\* environment; the package variable NoColor is the program's to assign.
InitColor ==
  /\ cliIdle
  /\ NoColor \in BOOLEAN
  /\ colors \in [ColorIds -> {[params |-> <<ColorFgRed>>, noColor |-> n] : n \in {<<>>, <<TRUE>>}}]
  /\ sinks = [w |-> <<>>, ColorOutput |-> <<>>]
  /\ equalsCalls = {}

\* c.isNoColorSet()
isNoColorSet(c) ==
  IF colors[c].noColor # <<>> THEN colors[c].noColor[1] ELSE NoColor

\* c.format(): the escape sequence of the parameters; and the reset
\* sequence "\x1b[0m".
format(c) == [w |-> "start", params |-> colors[c].params]
resetSequence == [w |-> "reset"]

\* What c.SetWriter(w) and c.UnsetWriter(w) write to w.
SetWriter(c) == IF isNoColorSet(c) THEN <<>> ELSE <<format(c)>>
UnsetWriter(c) ==
  IF isNoColorSet(c) THEN <<>> ELSE IF NoColor THEN <<>> ELSE <<resetSequence>>

\* What c.Set(), Unset() and c.unset() write to ColorOutput.
Set(c) == IF isNoColorSet(c) THEN <<>> ELSE <<format(c)>>
Unset == IF NoColor THEN <<>> ELSE <<resetSequence>>
unset(c) == IF isNoColorSet(c) THEN <<>> ELSE Unset

\* The number of texts written so far.
Texts(s) == Cardinality({n \in 1..Len(s) : s[n].w = "text"})
printed == Texts(sinks.w) + Texts(sinks.ColorOutput)

\* c.DisableColor() and c.EnableColor()
DisableColor(c) ==
  /\ colors' = [colors EXCEPT ![c].noColor = <<TRUE>>]
  /\ UNCHANGED <<cli, NoColor, sinks, equalsCalls>>
disableColor == \E c \in ColorIds : DisableColor(c)

EnableColor(c) ==
  /\ colors' = [colors EXCEPT ![c].noColor = <<FALSE>>]
  /\ UNCHANGED <<cli, NoColor, sinks, equalsCalls>>
enableColor == \E c \in ColorIds : EnableColor(c)

\* c.Fprint(w, a...): SetWriter, the text, and the deferred UnsetWriter.
Fprint(c) ==
  /\ printed < MaxPrints
  /\ sinks' = [sinks EXCEPT !.w = @ \o SetWriter(c) \o <<[w |-> "text"]>> \o UnsetWriter(c)]
  /\ UNCHANGED <<cli, NoColor, colors, equalsCalls>>
fprint == \E c \in ColorIds : Fprint(c)

\* c.Print(a...): Set, the text, and the deferred unset, on ColorOutput.
ColorPrint(c) ==
  /\ printed < MaxPrints
  /\ sinks' = [sinks EXCEPT !.ColorOutput = @ \o Set(c) \o <<[w |-> "text"]>> \o unset(c)]
  /\ UNCHANGED <<cli, NoColor, colors, equalsCalls>>
colorPrint == \E c \in ColorIds : ColorPrint(c)

NextColor == disableColor \/ enableColor \/ fprint \/ colorPrint

SpecColor == InitColor /\ [][NextColor]_vars

\* What a sink holds is a run of calls, each of them either the text alone
\* or the start sequence, the text and the reset sequence.
Balanced(s) ==
  \A n \in 1..Len(s) :
    /\ s[n].w = "start" =>
         n + 2 <= Len(s) /\ s[n + 1].w = "text" /\ s[n + 2].w = "reset"
    /\ s[n].w = "reset" =>
         n > 2 /\ s[n - 1].w = "text" /\ s[n - 2].w = "start"

\* C29: for every combination of the global NoColor and a colour's own
\* EnableColor/DisableColor override, one call of Fprint or of Print writes
\* no escape sequence at all, or the start sequence before the text and the
\* reset sequence after it: no start sequence is left without its reset.
C29_StartHasReset == Balanced(sinks.w) /\ Balanced(sinks.ColorOutput)

\* The Color values of the program, made by NewColor with up to MaxParams
\* parameters each, nothing printed.
InitEquals ==
  /\ cliIdle
  /\ NoColor = FALSE
  /\ colors \in [ColorIds -> {[params |-> p, noColor |-> <<>>] :
                               p \in SeqsUpTo(ColorAttributes, MaxParams)}]
  /\ sinks = [w |-> <<>>, ColorOutput |-> <<>>]
  /\ equalsCalls = {}

\* A *Color: one of the Color values, or nil.
nil == 0
ColorPointers == ColorIds \cup {nil}

\* c.attrExists(a), on the parameters of c.
attrExists(params, a) == \E n \in 1..Len(params) : params[n] = a

\* c.Equals(c2)
Equals(c, c2) ==
  IF c = nil /\ c2 = nil THEN TRUE
  ELSE IF c = nil \/ c2 = nil THEN FALSE
  ELSE IF Len(colors[c].params) # Len(colors[c2].params) THEN FALSE
  ELSE \A n \in 1..Len(colors[c].params) :
         attrExists(colors[c2].params, colors[c].params[n])

\* One call c.Equals(c2), its result kept.
EqualsCall(c, c2) ==
  /\ \A r \in equalsCalls : r.c # c \/ r.c2 # c2
  /\ equalsCalls' = equalsCalls \cup {[c |-> c, c2 |-> c2, result |-> Equals(c, c2)]}
  /\ UNCHANGED <<cli, NoColor, colors, sinks>>
equalsCall == \E c \in ColorPointers, c2 \in ColorPointers : EqualsCall(c, c2)

NextEquals == equalsCall

SpecEquals == InitEquals /\ [][NextEquals]_vars

\* C30: Color.Equals is symmetric: for all colours a and b, parameter lists
\* that repeat an attribute included, a.Equals(b) and b.Equals(a) give the
\* same result.
C30_EqualsSymmetric ==
  \A r \in equalsCalls : \A q \in equalsCalls :
    (q.c = r.c2 /\ q.c2 = r.c) => q.result = r.result

====
